---- MODULE Spec2Model ----
(***************************************************************************)
(* Model of the price-acquisition and reconciliation pipeline of           *)
(* dolar-caro-be: PriceService (services.py), DatabaseManager              *)
(* (db_manager.py), the Nike/Adidas product scrapers (scrapers/) and the   *)
(* exchange-rate provider.                                                 *)
(*                                                                         *)
(* Conventions                                                             *)
(*  - Python None is the empty tuple <<>>, a present value x is <<x>>.     *)
(*  - A float quotient a / b is the reduced fraction <<num, den>>.         *)
(*  - Fields whose name starts with h_ are history annotations used only   *)
(*    to state properties; they are not columns or locals of the program.  *)
(***************************************************************************)
EXTENDS Integers, Sequences, FiniteSets, TLC

VARIABLES
    backend,    \* storage engine selected by db_url: "sqlite" (default file) or "server"
    db,         \* committed tables
    sess,       \* per caller: rows flushed by its open DatabaseManager session, not committed
    pc,         \* per caller: position in the operation it runs
    loc,        \* per caller: local variables of the operation
    ret,        \* outcome of the call that finished last
    cur,        \* caller that holds the event loop (runs synchronously), or NoProc
    ops,        \* number of operations started so far
    cache,      \* api.py: the process-wide result cache
    clock,      \* wall-clock time, in ticks of half an hour
    data_dir,   \* the JSON snapshot directories: latest.json of each, and the last write
    scraped     \* outcome of one scrape() call on given storefront behaviour, or None

vars == <<backend, db, sess, pc, loc, ret, cur, ops, cache, clock, data_dir, scraped>>

(***************************************************************************)
(* Bounds                                                                  *)
(***************************************************************************)
MaxOps == 2
\* HTTP requests and clock ticks of the API specification
MaxRequests == 3
MaxClock == 2

Procs == {"p1", "p2"}
NoProc == "none"

(***************************************************************************)
(* Optional values and float quotients                                     *)
(***************************************************************************)
None == <<>>
Some(x) == <<x>>
Val(o) == o[1]

\* Python truthiness of an optional number: None and 0 are falsy
Truthy(o) == o # None /\ Val(o) # 0

RECURSIVE GCD(_, _)
GCD(a, b) == IF b = 0 THEN a ELSE GCD(b, a % b)

\* a / b for b # 0, as a reduced fraction
Div(a, b) == LET g == GCD(a, b) IN <<a \div g, b \div g>>
\* the number v itself, as a fraction
Rat(v) == <<v, 1>>

Max(S) == CHOOSE x \in S : \A y \in S : y <= x
Min(S) == CHOOSE x \in S : \A y \in S : x <= y

(***************************************************************************)
(* Program constants                                                       *)
(***************************************************************************)
NikeFallbackAR == 199999
NikeFallbackUS == 110
AdidasFallbackAR == 149999
AdidasFallbackUS == 100
DefaultRate == 1375

Brands == {"nike", "adidas"}

\* fallback_prices[product_key][country] of the brand's scraper
fallback_prices(b, c) ==
    IF b = "nike" THEN (IF c = "AR" THEN NikeFallbackAR ELSE NikeFallbackUS)
    ELSE (IF c = "AR" THEN AdidasFallbackAR ELSE AdidasFallbackUS)

ProductName(b) == IF b = "nike" THEN "Nike Air Force 1" ELSE "Argentina Anniversary Jersey"
ScraperName(b) == IF b = "nike" THEN "Nike Scraper" ELSE "Adidas Scraper"
SourceName(b) == IF b = "nike" THEN "Nike Website" ELSE "Adidas Website"
CategoryName(b) == IF b = "nike" THEN "Footwear" ELSE "Sportswear"

(***************************************************************************)
(* Product scrapers                                                        *)
(*                                                                         *)
(* What a storefront page does is an input.  An AR page is                 *)
(*   [nav, sel, content], a US page is [nav, sel, js]:                     *)
(*   nav      page.goto / browser start succeeded                          *)
(*   sel      per selector of the ordered list, the number its text parses *)
(*            to, or None (timeout, absent, no digits)                     *)
(*   content  the page-content regex sweep: [raises, found]                *)
(*   js       the in-page script probe: [raises, found]                    *)
(***************************************************************************)
RECURSIVE extract_price_with_selectors(_)
\* first selector whose text parses to a number, else None
extract_price_with_selectors(sel) ==
    IF sel = <<>> THEN None
    ELSE IF Head(sel) # None THEN Head(sel)
    ELSE extract_price_with_selectors(Tail(sel))

\* mutant: the later stage is executed whatever the selectors gave
StageGuard_Always(price) == TRUE

\* `if not price:` in front of the content regex / script probe
StageGuard(price) == ~Truthy(price)

\* a later stage (content regex or script probe) run after the selectors gave `price`
LaterStage(price, stage) ==
    IF ~StageGuard(price) THEN price            \* the stage is skipped
    ELSE IF stage.raises THEN price             \* inner except: logged, price kept
    ELSE IF stage.found # None THEN stage.found
    ELSE price

\* price before the fallback substitution, AR path: selectors, then content regex
ExtractAR(page) ==
    IF ~page.nav THEN None                      \* outer except: price stays None
    ELSE LaterStage(extract_price_with_selectors(page.sel), page.content)

\* price before the fallback substitution, US path: selectors, then script probe
ExtractUS(page) ==
    IF ~page.nav THEN None
    ELSE LaterStage(extract_price_with_selectors(page.sel), page.js)

\* mutant: a missing price is returned as 0 instead of the fallback constant
OrFallback_NotSubstituted(price, fallback_price) ==
    IF price = None THEN 0 ELSE Val(price)

\* `if not price: price = fallback_price`
OrFallback(price, fallback_price) ==
    IF ~Truthy(price) THEN fallback_price ELSE Val(price)

scrape_argentina(page, fallback_price) == OrFallback(ExtractAR(page), fallback_price)
scrape_us(page, fallback_price) == OrFallback(ExtractUS(page), fallback_price)

\* history: the extraction failed totally (navigation failed, or no stage gave a price)
TotalFailureAR(page) ==
    \/ ~page.nav
    \/ /\ extract_price_with_selectors(page.sel) = None
       /\ (page.content.raises \/ page.content.found = None)
TotalFailureUS(page) ==
    \/ ~page.nav
    \/ /\ extract_price_with_selectors(page.sel) = None
       /\ (page.js.raises \/ page.js.found = None)

\* mutant: the US extraction is skipped when the AR extraction failed
ScraperScrape_USSkippedOnARFailure(b, arPage, usPage) ==
    [ar_price |-> scrape_argentina(arPage, fallback_prices(b, "AR")),
     us_price |-> IF TotalFailureAR(arPage) THEN fallback_prices(b, "US")
                  ELSE scrape_us(usPage, fallback_prices(b, "US")),
     h_ar_failed |-> TotalFailureAR(arPage),
     h_us_failed |-> TotalFailureUS(usPage)]

\* scrape(product_key) of the brand's scraper for its one product key
ScraperScrape(b, arPage, usPage) ==
    [ar_price |-> scrape_argentina(arPage, fallback_prices(b, "AR")),
     us_price |-> scrape_us(usPage, fallback_prices(b, "US")),
     h_ar_failed |-> TotalFailureAR(arPage),
     h_us_failed |-> TotalFailureUS(usPage)]
NikeScraper_scrape(arPage, usPage) == ScraperScrape("nike", arPage, usPage)
AdidasScraper_scrape(arPage, usPage) == ScraperScrape("adidas", arPage, usPage)
Scrape(b, arPage, usPage) ==
    IF b = "nike" THEN NikeScraper_scrape(arPage, usPage)
    ELSE AdidasScraper_scrape(arPage, usPage)

\* a price the storefront shows that differs from the fallback constant
OtherPrice(b, c) == fallback_prices(b, c) + 1

NoStage == [raises |-> FALSE, found |-> None]
RaisingStage == [raises |-> TRUE, found |-> None]
FoundStage(v) == [raises |-> FALSE, found |-> Some(v)]

\* page behaviours of one scrape() the pipeline is exercised with: <<AR page, US page>>
ARPage(nav, sel, content) == [nav |-> nav, sel |-> sel, content |-> content]
USPage(nav, sel, js) == [nav |-> nav, sel |-> sel, js |-> js]
PagePairs(b) ==
    LET oAR == OtherPrice(b, "AR")
        oUS == OtherPrice(b, "US")
        fAR == fallback_prices(b, "AR")
        fUS == fallback_prices(b, "US")
    IN { \* both navigations fail
         << ARPage(FALSE, <<None, None>>, NoStage), USPage(FALSE, <<None, None>>, NoStage) >>,
         \* every selector times out and the later stage finds nothing or raises
         << ARPage(TRUE, <<None, None>>, NoStage), USPage(TRUE, <<None, None>>, RaisingStage) >>,
         \* the second selector has the price in both storefronts
         << ARPage(TRUE, <<None, Some(oAR)>>, NoStage), USPage(TRUE, <<None, Some(oUS)>>, NoStage) >>,
         \* AR: content regex finds the price; US: the real price equals the fallback
         << ARPage(TRUE, <<None, None>>, FoundStage(oAR)), USPage(TRUE, <<Some(fUS), None>>, NoStage) >>,
         \* AR: the real price equals the fallback; US: the script probe finds the price
         << ARPage(TRUE, <<Some(fAR), None>>, NoStage), USPage(TRUE, <<None, None>>, FoundStage(oUS)) >>,
         \* AR: the selector text parses to 0 and the content sweep raises; US: price found
         << ARPage(TRUE, <<Some(0), None>>, RaisingStage), USPage(TRUE, <<Some(oUS), None>>, NoStage) >> }

\* results scrape() can return for the brand
ScrapeResults(b) == {Scrape(b, pp[1], pp[2]) : pp \in PagePairs(b)}

\* page behaviours the HTTP requests are exercised with: both extractions fail
\* totally, or both storefronts show a price
ApiPagePairs(b) ==
    { << ARPage(FALSE, <<None, None>>, NoStage), USPage(FALSE, <<None, None>>, NoStage) >>,
      << ARPage(TRUE, <<None, Some(OtherPrice(b, "AR"))>>, NoStage),
         USPage(TRUE, <<None, Some(OtherPrice(b, "US"))>>, NoStage) >> }
ApiScrapeResults(b) == {Scrape(b, pp[1], pp[2]) : pp \in ApiPagePairs(b)}

\* exceptions the browser steps raise: page.goto on a navigation timeout, a later
\* stage on a failed content read, script evaluation or number conversion
NavigationError == "TimeoutError"
StageError == "Error"
ExceptionClasses == {"TimeoutError", "Error", "ValueError"}

\* mutant: the handlers catch ValueError only
CaughtByExcept_OnlyValueError(e) == e = "ValueError"

\* `except Exception as e:` of the stage and of the whole extraction: logs, goes on
CaughtByExcept(e) == e \in ExceptionClasses

\* the exception that leaves one country's extraction, or None
RaisedBy(nav, sel, stage) ==
    IF ~nav
    THEN (IF CaughtByExcept(NavigationError) THEN None ELSE Some(NavigationError))
    ELSE IF /\ ~Truthy(extract_price_with_selectors(sel))
            /\ stage.raises
            /\ ~CaughtByExcept(StageError)
         THEN Some(StageError)
         ELSE None
RaisedAR(page) == RaisedBy(page.nav, page.sel, page.content)
RaisedUS(page) == RaisedBy(page.nav, page.sel, page.js)

\* the extraction stages a country path has, in the order of its code
PathStages(c) ==
    IF c = "AR" THEN <<"selectors", "content_regex">> ELSE <<"selectors", "script">>

\* history: the stages one extraction executed; the stage after the selectors is
\* guarded by `if not price:`
StagesAttempted(c, nav, sel) ==
    IF ~nav THEN <<>>
    ELSE IF ~StageGuard(extract_price_with_selectors(sel)) THEN <<PathStages(c)[1]>>
    ELSE PathStages(c)

\* scrape(): the AR extraction, then the US one; an exception of either leaves it
ScrapeOutcome(b, arPage, usPage) ==
    LET e == IF RaisedAR(arPage) # None THEN RaisedAR(arPage) ELSE RaisedUS(usPage)
    IN [brand |-> b, ar_page |-> arPage, us_page |-> usPage,
        raised |-> e,
        h_ar_stages |-> StagesAttempted("AR", arPage.nav, arPage.sel),
        h_us_stages |-> IF RaisedAR(arPage) # None THEN <<>>
                        ELSE StagesAttempted("US", usPage.nav, usPage.sel),
        result |-> IF e = None THEN Some(Scrape(b, arPage, usPage)) ELSE None]

\* every behaviour of a storefront page with up to MaxSelectors selectors tried
MaxSelectors == 2
SelectorTexts(b, c) == {None, Some(0), Some(OtherPrice(b, c))}
SelectorLists(b, c) == UNION {[1..n -> SelectorTexts(b, c)] : n \in 0..MaxSelectors}
Stages(b, c) == {NoStage, RaisingStage, FoundStage(0), FoundStage(OtherPrice(b, c))}
ARPages(b) ==
    {ARPage(n, s, st) : n \in BOOLEAN, s \in SelectorLists(b, "AR"), st \in Stages(b, "AR")}
USPages(b) ==
    {USPage(n, s, st) : n \in BOOLEAN, s \in SelectorLists(b, "US"), st \in Stages(b, "US")}

(***************************************************************************)
(* Database: committed tables and session-local flushed rows               *)
(***************************************************************************)
EmptyTables ==
    [countries |-> {}, categories |-> {}, products |-> {}, sources |-> {},
     prices |-> {}, exchange_rates |-> {}, scraper_runs |-> {}]
TableNames == DOMAIN EmptyTables

\* rows a session with flushed rows s sees in table t
View(s, t) == db[t] \cup s[t]

\* every row of table t, committed or flushed by any open session
AllRows(t) == db[t] \cup UNION {sess[p][t] : p \in Procs}

\* autoincrement primary key for a new row of table t
NewId(t) == Max({r.id : r \in AllRows(t)} \cup {0}) + 1

\* query(...).first(): the matching row with the lowest id, or None
First(rows) ==
    IF rows = {} THEN None
    ELSE Some(CHOOSE r \in rows : r.id = Min({x.id : x \in rows}))
\* .id of a .first() result that is known to be present, 0 standing for "no row"
IdOf(o) == IF o = None THEN 0 ELSE Val(o).id

\* A flush of an INSERT/UPDATE needs the database write lock.  The default
\* engine is one SQLite file: while a session holds flushed, uncommitted rows
\* it holds the lock and a flush on any other connection fails with
\* OperationalError ("database is locked").  A server engine has no such lock.
CanWrite(holders) ==
    backend = "server" \/ \A q \in holders : sess[q] = EmptyTables

\* mutant: a commit replaces the tables the session wrote to
Commit_Replaces(s) == [t \in TableNames |-> IF s[t] # {} THEN s[t] ELSE db[t]]
\* __exit__: commit on normal exit, rollback when an exception leaves the scope
Commit(s) == [t \in TableNames |-> db[t] \cup s[t]]
\* mutant: the scope commits also when an exception leaves it
DbExit_CommitsOnException(s, exc) == Commit(s)

\* mutant: the scope never commits
DbExit_NeverCommits(s, exc) == db
DbExit(s, exc) == IF exc THEN db ELSE Commit(s)

\* mutant: the id of a new Source is returned without the row being added
get_or_create_source_NotAdded(s, name, type_str) == <<s, NewId("sources")>>

\* get_or_create_source on session rows s: <<s', source id>>
get_or_create_source(s, name, type_str) ==
    LET found == First({r \in View(s, "sources") : r.name = name /\ r.type = type_str})
        id == NewId("sources")
    IN IF found # None THEN <<s, Val(found).id>>
       ELSE <<[s EXCEPT !.sources = @ \cup {[id |-> id, name |-> name, type |-> type_str]}], id>>

\* start_scraper_run: a row with success = None
start_scraper_run(s, id, scraper_name) ==
    [s EXCEPT !.scraper_runs = @ \cup
        {[id |-> id, scraper_name |-> scraper_name, success |-> None,
          products_scraped |-> 0, error_message |-> None]}]

\* mutant: the update leaves success untouched
finish_scraper_run_SuccessUnset(s, run_id, success, products_scraped, error_message) ==
    [s EXCEPT !.scraper_runs =
        {IF r.id = run_id
         THEN [r EXCEPT !.products_scraped = products_scraped,
                        !.error_message = error_message]
         ELSE r : r \in @}]

\* finish_scraper_run: update the row of run_id when the session finds it
finish_scraper_run(s, run_id, success, products_scraped, error_message) ==
    [s EXCEPT !.scraper_runs =
        {IF r.id = run_id
         THEN [r EXCEPT !.success = Some(success),
                        !.products_scraped = products_scraped,
                        !.error_message = error_message]
         ELSE r : r \in @}]

\* add_price: a new Price row.  History: h_origin ("run" or "manual"), h_failed (the
\* extraction of this price failed totally), h_rate (the rate the caller obtained)
add_price(s, product_id, country_id, source_id, value, currency, is_fallback, exchange_rate, usd_value, hist) ==
    [s EXCEPT !.prices = @ \cup
        {[id |-> NewId("prices"), product_id |-> product_id, country_id |-> country_id,
          source_id |-> source_id, value |-> value, currency |-> currency,
          is_fallback |-> is_fallback, exchange_rate |-> exchange_rate,
          usd_value |-> usd_value, h_origin |-> hist.origin,
          h_failed |-> hist.failed, h_rate |-> hist.rate]}]

\* add_exchange_rate: a new ExchangeRate row in tables d
add_exchange_rate(d, from_currency, to_currency, rate, source) ==
    [d EXCEPT !.exchange_rates = @ \cup
        {[id |-> NewId("exchange_rates"), from_currency |-> from_currency,
          to_currency |-> to_currency, rate |-> rate, source |-> source]}]

(***************************************************************************)
(* Exchange Rate Provider                                                  *)
(***************************************************************************)
\* answers of the quote endpoint: None = the request fails (network error,
\* timeout, no "venta" field, malformed body); Some(r) = it answers venta = r
Quotes == {None, Some(0), Some(1200)}

\* mutant: the default rate is stored as an ExchangeRate row when the request fails
get_exchange_rate_StoresDefault(q, holders) ==
    LET src == get_or_create_source(EmptyTables, "DolarApi", "api")
        rate == IF q = None THEN DefaultRate ELSE Val(q)
        rows == add_exchange_rate(src[1], "ARS", "USD", rate, "DolarApi")
    IN IF ~CanWrite(holders) THEN [rate |-> DefaultRate, db |-> db]
       ELSE [rate |-> rate, db |-> Commit(rows)]

\* get_exchange_rate / get_exchange_rate_sync with quote answer q, called while
\* the sessions of `holders` are other connections: [rate, db]
get_exchange_rate(q, holders) ==
    IF q = None THEN [rate |-> DefaultRate, db |-> db]         \* except: default
    ELSE IF ~CanWrite(holders)
    THEN [rate |-> DefaultRate, db |-> db]                     \* flush raises, rolled back
    ELSE LET src == get_or_create_source(EmptyTables, "DolarApi", "api")
             rows == add_exchange_rate(src[1], "ARS", "USD", Val(q), "DolarApi")
         IN [rate |-> Val(q), db |-> Commit(rows)]

(***************************************************************************)
(* Callers and their operations                                            *)
(***************************************************************************)
NoErr == "-"

IdleLoc ==
    [kind |-> "idle", brand |-> "-", run_id |-> 0, product |-> 0, us |-> 0, ar |-> 0,
     source |-> 0, country |-> 0, price_value |-> 0, ar_price |-> 0, us_price |-> 0, h_ar_failed |-> FALSE,
     h_us_failed |-> FALSE, exchange_rate |-> 0, h_quote |-> None, usd_value |-> None,
     currency |-> "-", in_try |-> FALSE, err |-> NoErr,
     api |-> "-", all |-> FALSE, nike_data |-> None, adidas_data |-> None,
     h_served |-> None, h_rate_calls |-> 0, h_wrote_cache |-> FALSE]

\* IdleLoc: h_rate_calls counts the get_exchange_rate calls of the run,
\* h_wrote_cache tells that the request has assigned to the cache; api is the cache key of the product handler a request is in, all
\* tells that GET /all called it, nike_data / adidas_data are the handler
\* results /all has collected, h_served is the age of the oldest cache entry
\* the request was answered from
\* outcome of a call: op_no numbers the operation, h_quote is what the quote
\* endpoint answered during a get_exchange_rate call, h_args are the arguments
\* of a manual entry or a history query, prices the rows a history query returned
NoRet == [kind |-> "none", status |-> "none", err |-> NoErr, rate |-> 0,
          h_quote |-> None, op_no |-> 0, h_args |-> <<>>, prices |-> <<>>,
          h_served |-> None, h_wrote_cache |-> FALSE]

\* a new call starts when nobody holds the event loop; it takes the first idle
\* caller slot (the slots are interchangeable)
CanStart(p) ==
    /\ cur = NoProc /\ pc[p] = "idle" /\ ops < MaxOps
    /\ p = "p1" \/ pc["p1"] # "idle"
Running(p, at) == cur = p /\ pc[p] = at

\* an exception raised at the current step: inside the try it reaches the
\* except clause, outside it leaves the DatabaseManager scope directly
Raise(p, err) ==
    /\ loc' = [loc EXCEPT ![p].err = err]
    /\ pc' = [pc EXCEPT ![p] = IF loc[p].in_try THEN "except" ELSE "exit"]

(***************************************************************************)
(* JSON snapshots: utils.save_historical_data and cli.save_to_json         *)
(*                                                                         *)
(* A JSON object is a function from the keys it has to their values; a     *)
(* null value is None.  Both writers work on <data>/<endpoint>/latest.json *)
(* (the timestamped snapshot file next to it is written once and never     *)
(* read back by them).                                                     *)
(***************************************************************************)
\* directories written to: by the CLI ("nike"), by manual entry ("manual/...")
SnapshotDirs == {"nike", "manual/reference/nike"}

\* keys and values of the objects the writers are exercised with
PriceFields == {"ar_price", "us_price"}
JsonValues == {None, Some(400), Some(500)}
JsonObjects == UNION {[S -> JsonValues] : S \in SUBSET PriceFields}

\* the fields save_historical_data carries over from the previous latest.json
MergedFields == {"us_price", "ar_price", "url_us", "url_ar", "ar_price_usd"}

\* no latest.json anywhere, nothing written yet
EmptyDataDir == [latest |-> [d \in SnapshotDirs |-> None], h_write |-> None]

\* obj with key k set to v
WithKey(obj, k, v) ==
    [f \in DOMAIN obj \cup {k} |-> IF f = k THEN v ELSE obj[f]]

\* `if endpoint in ['nike', 'adidas']`
MergesLatest(endpoint) == endpoint \in {"nike", "adidas"}

\* the merge loop of save_historical_data over MergedFields
MergeLatest(data, latest_data) ==
    [f \in DOMAIN data \cup (MergedFields \cap DOMAIN latest_data) |->
        IF f \in MergedFields /\ f \in DOMAIN latest_data
           /\ (f \notin DOMAIN data \/ data[f] = None)
        THEN latest_data[f]
        ELSE data[f]]

\* content of latest.json after save_historical_data(endpoint, data) at time now
save_historical_data(endpoint, data, previous, now) ==
    LET data_with_timestamp == WithKey(data, "timestamp", Some(now))
        latest_data == IF previous = None THEN <<>> ELSE Val(previous)
    IN IF MergesLatest(endpoint)
       THEN MergeLatest(data_with_timestamp, latest_data)
       ELSE data_with_timestamp

\* content of latest.json after save_to_json(name, data) at time now
save_to_json(name, data, previous, now) ==
    IF "timestamp" \in DOMAIN data THEN data
    ELSE WithKey(data, "timestamp", Some(now))

\* one write to a snapshot directory; h_write records what was written over what
WriteLatest(endpoint, writer, data, content) ==
    data_dir' = [latest |-> [data_dir.latest EXCEPT ![endpoint] = Some(content)],
                 h_write |-> Some([endpoint |-> endpoint, writer |-> writer,
                                   data |-> data,
                                   previous |-> data_dir.latest[endpoint]])]

SaveHistoricalData(endpoint, data) ==
    /\ WriteLatest(endpoint, "save_historical_data", data,
                   save_historical_data(endpoint, data, data_dir.latest[endpoint], clock))
    /\ UNCHANGED <<backend, db, sess, pc, loc, ret, cur, ops, cache, clock, scraped>>

SaveToJson(name, data) ==
    /\ WriteLatest(name, "save_to_json", data,
                   save_to_json(name, data, data_dir.latest[name], clock))
    /\ UNCHANGED <<backend, db, sess, pc, loc, ret, cur, ops, cache, clock, scraped>>

(***************************************************************************)
(* api.py: the result cache                                                *)
(***************************************************************************)
EmptyCache == [nike |-> None, adidas_jersey |-> None, all |-> None, last_update |-> None]

\* timedelta(hours=1), in clock ticks
CacheWindow == 2

\* is_cache_valid() at time now
is_cache_valid(c, now) ==
    IF c.last_update = None THEN FALSE
    ELSE now - Val(c.last_update) < CacheWindow

(***************************************************************************)
(* PriceService.setup_database                                             *)
(***************************************************************************)
\* get_or_create of a reference row keyed by field `key` in table t of tables d
GetOrCreate(d, t, key, row) ==
    IF \E r \in d[t] : r[key] = row[key] THEN d
    ELSE [d EXCEPT ![t] = @ \cup {[row EXCEPT !.id = Max({r.id : r \in d[t]} \cup {0}) + 1]}]

RECURSIVE GetOrCreateAll(_, _, _, _)
GetOrCreateAll(d, t, key, rows) ==
    IF rows = <<>> THEN d
    ELSE GetOrCreateAll(GetOrCreate(d, t, key, Head(rows)), t, key, Tail(rows))

CategoryId(d, name) == IdOf(First({r \in d.categories : r.name = name}))

SetupTables(d) ==
    LET d1 == GetOrCreateAll(d, "countries", "code",
                  << [id |-> 0, code |-> "US", currency |-> "USD"],
                     [id |-> 0, code |-> "AR", currency |-> "ARS"] >>)
        d2 == GetOrCreateAll(d1, "categories", "name",
                  << [id |-> 0, name |-> "Footwear"], [id |-> 0, name |-> "Sportswear"] >>)
        d3 == GetOrCreateAll(d2, "sources", "name",
                  << [id |-> 0, name |-> "Nike Website", type |-> "scraping"],
                     [id |-> 0, name |-> "Adidas Website", type |-> "scraping"],
                     [id |-> 0, name |-> "DolarApi", type |-> "api"] >>)
    IN GetOrCreateAll(d3, "products", "name",
                  << [id |-> 0, name |-> ProductName("nike"),
                      category_id |-> CategoryId(d3, "Footwear")],
                     [id |-> 0, name |-> ProductName("adidas"),
                      category_id |-> CategoryId(d3, "Sportswear")] >>)

\* the database is new, or `setup` has already been run on it
Init ==
    /\ backend \in {"sqlite", "server"}
    /\ db \in {EmptyTables, SetupTables(EmptyTables)}
    /\ sess = [p \in Procs |-> EmptyTables]
    /\ pc = [p \in Procs |-> "idle"]
    /\ loc = [p \in Procs |-> IdleLoc]
    /\ ret = NoRet
    /\ cur = NoProc
    /\ ops = 0
    /\ cache = EmptyCache
    /\ clock = 0
    /\ data_dir = EmptyDataDir
    /\ scraped = None

\* the whole of setup_database runs without suspension and commits at scope exit
SetupDatabase(p) ==
    /\ CanStart(p)
    /\ ops' = ops + 1
    /\ IF SetupTables(db) # db /\ ~CanWrite(Procs \ {p})
       THEN /\ ret' = ([NoRet EXCEPT !.kind = "setup", !.status = "raised",
                                                       !.err = "OperationalError",
                                                       !.op_no = ops'])
            /\ db' = db
       ELSE /\ ret' = ([NoRet EXCEPT !.kind = "setup", !.status = "returned",
                                                       !.op_no = ops'])
            /\ db' = SetupTables(db)
    /\ UNCHANGED <<backend, sess, pc, loc, cur, cache, clock, data_dir, scraped>>

(***************************************************************************)
(* PriceService.get_exchange_rate called on its own (api.py, scrape_all)   *)
(***************************************************************************)
RateCall(p) ==
    /\ CanStart(p)
    /\ ops' = ops + 1
    /\ \E q \in Quotes :
         LET r == get_exchange_rate(q, Procs) IN
         /\ db' = r.db
         /\ ret' = ([NoRet EXCEPT !.kind = "rate", !.status = "returned",
                                                    !.rate = r.rate, !.h_quote = q,
                                                    !.op_no = ops'])
    /\ UNCHANGED <<backend, sess, pc, loc, cur, cache, clock, data_dir, scraped>>

(***************************************************************************)
(* PriceService.scrape_nike_prices / scrape_adidas_prices                  *)
(***************************************************************************)
CountryId(s, code) == IdOf(First({r \in View(s, "countries") : r.code = code}))
ProductId(s, name) == IdOf(First({r \in View(s, "products") : r.name = name}))

\* `with DatabaseManager`, start_scraper_run, the reference-row queries and
\* get_or_create_source, up to the suspension at `await scraper.scrape(...)`;
\* l0 holds what the caller's frame keeps across the run
StartRunBody(p, b, l0) ==
    IF ~CanWrite(Procs \ {p})
    THEN \* the flush in start_scraper_run raises before the try is entered
         /\ loc' = [loc EXCEPT ![p] = [l0 EXCEPT !.kind = "run", !.brand = b,
                                                 !.err = "OperationalError"]]
         /\ pc' = [pc EXCEPT ![p] = "exit"]
         /\ cur' = p
         /\ sess' = sess
    ELSE LET id == NewId("scraper_runs")
             s1 == start_scraper_run(sess[p], id, ScraperName(b))
             src == get_or_create_source(s1, SourceName(b), "scraping")
         IN /\ sess' = [sess EXCEPT ![p] = src[1]]
            /\ loc' = [loc EXCEPT ![p] =
                         [l0 EXCEPT !.kind = "run", !.brand = b, !.run_id = id,
                                    !.us = CountryId(s1, "US"),
                                    !.ar = CountryId(s1, "AR"),
                                    !.product = ProductId(s1, ProductName(b)),
                                    !.source = src[2], !.in_try = TRUE]]
            /\ pc' = [pc EXCEPT ![p] = "scraping"]
            /\ cur' = NoProc

\* scrape_nike_prices / scrape_adidas_prices called on its own (cli.py, scrape_all)
StartRun(p, b) ==
    /\ CanStart(p)
    /\ ops' = ops + 1
    /\ ret' = ret
    /\ StartRunBody(p, b, IdleLoc)
    /\ UNCHANGED <<backend, db, cache, clock, data_dir, scraped>>

\* scrape() returns its result, or the browser driver fails to start and it raises
ScrapeReturn(p) ==
    /\ cur = NoProc /\ pc[p] = "scraping"
    /\ cur' = p
    /\ \/ \E r \in (IF loc[p].api = "-" THEN ScrapeResults(loc[p].brand)
                    ELSE ApiScrapeResults(loc[p].brand)) :
            /\ loc' = [loc EXCEPT ![p].ar_price = r.ar_price, ![p].us_price = r.us_price,
                                  ![p].h_ar_failed = r.h_ar_failed,
                                  ![p].h_us_failed = r.h_us_failed]
            /\ pc' = [pc EXCEPT ![p] = "rate"]
       \/ Raise(p, "PlaywrightError")
    /\ UNCHANGED <<backend, db, sess, ret, ops, cache, clock, data_dir, scraped>>

\* mutant: the run does not call the provider and uses the default rate
RunRate_NotCalled(p) ==
    /\ Running(p, "rate")
    /\ db' = db
    /\ loc' = [loc EXCEPT ![p].exchange_rate = DefaultRate]
    /\ pc' = [pc EXCEPT ![p] = "add_us"]
    /\ UNCHANGED <<backend, sess, ret, cur, ops, cache, clock, data_dir, scraped>>

\* exchange_rate = await self.get_exchange_rate(), inside the open run
RunRate(p) ==
    /\ Running(p, "rate")
    /\ \E q \in Quotes :
         LET r == get_exchange_rate(q, Procs) IN
         /\ db' = r.db
         /\ loc' = [loc EXCEPT ![p].exchange_rate = r.rate, ![p].h_quote = q,
                               ![p].h_rate_calls = @ + 1]
    /\ pc' = [pc EXCEPT ![p] = "add_us"]
    /\ UNCHANGED <<backend, sess, ret, cur, ops, cache, clock, data_dir, scraped>>

\* mutant: every price is compared with the US constant
IsFallback_UsConstant(b, c, value) == value = fallback_prices(b, "US")

\* mutant: the USD value is computed with the default rate
ArUsdValue_DefaultRate(value, exchange_rate) == Div(value, DefaultRate)

\* is_fallback=result[...] == self.<scraper>.fallback_prices[key][country]
IsFallback(b, c, value) == value = fallback_prices(b, c)

\* usd_value=result['ar_price'] / exchange_rate
ArUsdValue(value, exchange_rate) == Div(value, exchange_rate)

\* mutant: the run is finalized before its Price rows are written
AddUS_FinalizedFirst(p) ==
    /\ Running(p, "add_us")
    /\ IF loc[p].product = 0 \/ loc[p].us = 0
       THEN Raise(p, "AttributeError") /\ sess' = sess
       ELSE /\ sess' = [sess EXCEPT ![p] =
                  add_price(finish_scraper_run(@, loc[p].run_id, TRUE, 1, None),
                            loc[p].product, loc[p].us, loc[p].source, loc[p].us_price,
                            "USD", IsFallback(loc[p].brand, "US", loc[p].us_price),
                            1, Rat(loc[p].us_price),
                            [origin |-> "run", failed |-> loc[p].h_us_failed, rate |-> 1])]
            /\ pc' = [pc EXCEPT ![p] = "add_ar"]
            /\ loc' = loc
    /\ UNCHANGED <<backend, db, ret, cur, ops, cache, clock, data_dir, scraped>>

\* db.add_price(... currency="USD" ...): product.id / us.id raise on None
AddUS(p) ==
    /\ Running(p, "add_us")
    /\ IF loc[p].product = 0 \/ loc[p].us = 0
       THEN Raise(p, "AttributeError") /\ sess' = sess
       ELSE /\ sess' = [sess EXCEPT ![p] =
                  add_price(@, loc[p].product, loc[p].us, loc[p].source, loc[p].us_price,
                            "USD", IsFallback(loc[p].brand, "US", loc[p].us_price),
                            1, Rat(loc[p].us_price),
                            [origin |-> "run", failed |-> loc[p].h_us_failed, rate |-> 1])]
            /\ pc' = [pc EXCEPT ![p] = "add_ar"]
            /\ loc' = loc
    /\ UNCHANGED <<backend, db, ret, cur, ops, cache, clock, data_dir, scraped>>

\* db.add_price(... currency="ARS" ...): ar.id raises on None, the division on rate 0
AddAR(p) ==
    /\ Running(p, "add_ar")
    /\ IF loc[p].ar = 0
       THEN Raise(p, "AttributeError") /\ sess' = sess
       ELSE IF loc[p].exchange_rate = 0
       THEN Raise(p, "ZeroDivisionError") /\ sess' = sess
       ELSE /\ sess' = [sess EXCEPT ![p] =
                  add_price(@, loc[p].product, loc[p].ar, loc[p].source, loc[p].ar_price,
                            "ARS", IsFallback(loc[p].brand, "AR", loc[p].ar_price),
                            loc[p].exchange_rate,
                            ArUsdValue(loc[p].ar_price, loc[p].exchange_rate),
                            [origin |-> "run", failed |-> loc[p].h_ar_failed,
                             rate |-> loc[p].exchange_rate])]
            /\ pc' = [pc EXCEPT ![p] = "finish"]
            /\ loc' = loc
    /\ UNCHANGED <<backend, db, ret, cur, ops, cache, clock, data_dir, scraped>>

\* mutant: the success path returns without finalizing the run
FinishRun_NotFinalized(p) ==
    /\ Running(p, "finish")
    /\ pc' = [pc EXCEPT ![p] = "exit"]
    /\ UNCHANGED <<backend, db, sess, loc, ret, cur, ops, cache, clock, data_dir, scraped>>

\* db.finish_scraper_run(run.id, True, 1), then the result is built and returned
FinishRun(p) ==
    /\ Running(p, "finish")
    /\ sess' = [sess EXCEPT ![p] = finish_scraper_run(@, loc[p].run_id, TRUE, 1, None)]
    /\ pc' = [pc EXCEPT ![p] = "exit"]
    /\ UNCHANGED <<backend, db, loc, ret, cur, ops, cache, clock, data_dir, scraped>>

\* except Exception as e: db.finish_scraper_run(run.id, False, 0, str(e)); raise
ExceptRun(p) ==
    /\ Running(p, "except") /\ loc[p].kind = "run"
    /\ sess' = [sess EXCEPT ![p] =
                  finish_scraper_run(@, loc[p].run_id, FALSE, 0, Some(loc[p].err))]
    /\ pc' = [pc EXCEPT ![p] = "exit"]
    /\ UNCHANGED <<backend, db, loc, ret, cur, ops, cache, clock, data_dir, scraped>>

\* DatabaseManager.__exit__ at the end of the operation's `with` block
ExitScope(p) ==
    /\ Running(p, "exit") /\ loc[p].api = "-"
    /\ db' = DbExit(sess[p], loc[p].err # NoErr)
    /\ sess' = [sess EXCEPT ![p] = EmptyTables]
    /\ ret' = ([NoRet EXCEPT !.kind = loc[p].kind,
                               !.status = IF loc[p].err # NoErr THEN "raised" ELSE "returned",
                               !.err = loc[p].err, !.rate = loc[p].exchange_rate,
                               !.h_quote = loc[p].h_quote, !.op_no = ops,
                               !.h_args = IF loc[p].kind = "manual"
                                          THEN <<loc[p].product, loc[p].country,
                                                 loc[p].currency>>
                                          ELSE <<>>])
    /\ pc' = [pc EXCEPT ![p] = "idle"]
    /\ loc' = [loc EXCEPT ![p] = IdleLoc]
    /\ cur' = NoProc
    /\ UNCHANGED <<backend, ops, cache, clock, data_dir, scraped>>

(***************************************************************************)
(* PriceService.add_manual_price                                           *)
(***************************************************************************)
\* the request's inputs: ids 1 and 2 are rows setup_database creates, 3 is unknown
ManualProductIds == {1, 3}
ManualCountryIds == {2, 3}
ManualCurrencies == {"ARS", "USD"}
ManualPrice == NikeFallbackAR

\* parameters db.add_price accepts, and the keywords add_manual_price passes
AddPriceParams ==
    {"product_id", "country_id", "source_id", "value", "currency", "is_fallback",
     "exchange_rate", "usd_value"}
ManualAddPriceKeywords ==
    {"product_id", "country_id", "source_id", "value", "currency", "is_fallback",
     "exchange_rate", "usd_value", "description", "image_url", "date_obtained"}

\* mutant: the lookup by id always finds a row
HasRow_Always(rows, id) == TRUE

\* query(...).filter_by(id=...).first() is not None
HasRow(rows, id) == \E r \in rows : r.id = id

\* the lookups and get_or_create_source("Manual Entry"); the except clause of
\* add_manual_price only logs and re-raises, so a raise leaves the scope
ManualStart(p, product_id, country_id, currency) ==
    /\ CanStart(p)
    /\ ops' = ops + 1
    /\ ret' = ret
    /\ cur' = p
    /\ LET l0 == [IdleLoc EXCEPT !.kind = "manual", !.currency = currency,
                                 !.price_value = ManualPrice,
                                 !.product = product_id, !.country = country_id]
           hasProduct == HasRow(View(sess[p], "products"), product_id)
           hasCountry == HasRow(View(sess[p], "countries"), country_id)
           src == get_or_create_source(sess[p], "Manual Entry", "manual")
       IN IF ~hasProduct \/ ~hasCountry
          THEN /\ loc' = [loc EXCEPT ![p] = [l0 EXCEPT !.err = "ValueError"]]
               /\ pc' = [pc EXCEPT ![p] = "exit"]
               /\ sess' = sess
          ELSE IF src[1] # sess[p] /\ ~CanWrite(Procs \ {p})
          THEN /\ loc' = [loc EXCEPT ![p] = [l0 EXCEPT !.err = "OperationalError"]]
               /\ pc' = [pc EXCEPT ![p] = "exit"]
               /\ sess' = sess
          ELSE /\ loc' = [loc EXCEPT ![p] = [l0 EXCEPT !.source = src[2]]]
               /\ pc' = [pc EXCEPT ![p] = "m_rate"]
               /\ sess' = [sess EXCEPT ![p] = src[1]]
    /\ UNCHANGED <<backend, db, cache, clock, data_dir, scraped>>

\* usd_value = price_value / exchange_rate if exchange_rate else None
ManualUsdValue(price_value, exchange_rate) ==
    IF exchange_rate # 0 THEN Div(price_value, exchange_rate) ELSE None

\* exchange rate and usd value: get_exchange_rate_sync unless the currency is USD
ManualRate(p) ==
    /\ Running(p, "m_rate")
    /\ IF loc[p].currency # "USD"
       THEN \E q \in Quotes :
              LET r == get_exchange_rate(q, Procs) IN
              /\ db' = r.db
              /\ loc' = [loc EXCEPT ![p].exchange_rate = r.rate, ![p].h_quote = q,
                                    ![p].usd_value =
                                        ManualUsdValue(loc[p].price_value, r.rate)]
       ELSE /\ db' = db
            /\ loc' = [loc EXCEPT ![p].exchange_rate = 1,
                                  ![p].usd_value = Rat(loc[p].price_value)]
    /\ pc' = [pc EXCEPT ![p] = "m_add"]
    /\ UNCHANGED <<backend, sess, ret, cur, ops, cache, clock, data_dir, scraped>>

\* db.add_price(..., description=, image_url=, date_obtained=): a keyword the
\* method does not accept is a TypeError at the call
ManualAdd(p) ==
    /\ Running(p, "m_add")
    /\ IF ManualAddPriceKeywords \subseteq AddPriceParams
       THEN /\ sess' = [sess EXCEPT ![p] =
                  add_price(@, loc[p].product, loc[p].country, loc[p].source,
                            loc[p].price_value, loc[p].currency, FALSE,
                            loc[p].exchange_rate, loc[p].usd_value,
                            [origin |-> "manual", failed |-> FALSE,
                             rate |-> loc[p].exchange_rate])]
            /\ pc' = [pc EXCEPT ![p] = "exit"]
            /\ loc' = loc
       ELSE Raise(p, "TypeError") /\ sess' = sess
    /\ UNCHANGED <<backend, db, ret, cur, ops, cache, clock, data_dir, scraped>>

(***************************************************************************)
(* PriceService.get_price_history (GET /history/{product})                 *)
(***************************************************************************)
\* the request's inputs: product keys of product_map, a country code the
\* countries table has and one it has not, and the limit
HistoryProducts == Brands
HistoryCountries == {"AR", "BR"}
HistoryLimits == {1, 2}

\* attributes of the Price model, and the attributes the result is built from
PriceAttributes ==
    {"id", "product_id", "country_id", "source_id", "value", "currency",
     "date_obtained", "is_fallback", "exchange_rate", "usd_value",
     "product", "country", "source"}
HistoryResultAttributes ==
    {"value", "currency", "date_obtained", "usd_value", "exchange_rate",
     "is_fallback", "description", "image_url"}

\* order_by(Price.date_obtained.desc()): rows are stamped with datetime.now()
\* when they are added, so the newest row is the one with the highest id
RECURSIVE NewestFirst(_)
NewestFirst(rows) ==
    IF rows = {} THEN <<>>
    ELSE LET top == CHOOSE r \in rows : \A x \in rows : x.id <= r.id
         IN <<top>> \o NewestFirst(rows \ {top})

\* .limit(limit)
Limit(seq, limit) == SubSeq(seq, 1, Min({Len(seq), limit}))

\* DatabaseManager.get_price_history on the rows a session sees
db_get_price_history(rows, product_id, country_id, limit) ==
    Limit(NewestFirst({r \in rows : r.product_id = product_id /\ r.country_id = country_id}),
          limit)

\* the whole query runs without suspension; it writes nothing
HistoryQuery(p, b, country_code, limit) ==
    /\ CanStart(p)
    /\ ops' = ops + 1
    /\ LET product_id == ProductId(EmptyTables, ProductName(b))
           country_id == CountryId(EmptyTables, country_code)
           prices == db_get_price_history(db.prices, product_id, country_id, limit)
           out == [NoRet EXCEPT !.kind = "history", !.op_no = ops',
                                !.h_args = <<b, country_code, limit>>]
       IN ret' = IF product_id = 0 \/ country_id = 0
                 THEN [out EXCEPT !.status = "raised", !.err = "ValueError"]
                 ELSE IF prices # <<>> /\ ~(HistoryResultAttributes \subseteq PriceAttributes)
                 THEN [out EXCEPT !.status = "raised", !.err = "AttributeError"]
                 ELSE [out EXCEPT !.status = "returned", !.prices = prices]
    /\ UNCHANGED <<backend, db, sess, pc, loc, cur, cache, clock, data_dir, scraped>>

(***************************************************************************)
(* api.py: GET /nike, GET /adidas-jersey, GET /all                         *)
(*                                                                         *)
(* get_price_service() builds PriceService(debug=False): the handlers      *)
(* always work on the default SQLite file.                                 *)
(***************************************************************************)
ProductKeys == {"nike", "adidas_jersey"}
Endpoints == ProductKeys \cup {"all"}
KeyBrand(key) == IF key = "nike" THEN "nike" ELSE "adidas"

\* round(x / y, 2), in hundredths
Round2(x, y) == (200 * x + y) \div (2 * y)

\* the response a product handler builds; h_computed is the time it was built,
\* h_run_rate the "exchange_rate" of the run's result, which the handler drops
ProductResult(key, ar_price, us_price, exchange_rate, now, run_rate) ==
    [producto |-> key, precio_ars |-> ar_price, precio_usd |-> us_price,
     precio_ars_usd |-> Round2(ar_price, exchange_rate),
     dolar_blue |-> exchange_rate, h_computed |-> now, h_run_rate |-> run_rate]

\* age of the older of the cache entries a request has been answered from
Older(served, age) ==
    IF served = None THEN Some(age) ELSE Some(Max({Val(served), age}))

ApiCanStart(p) ==
    /\ cur = NoProc /\ pc[p] = "idle" /\ ops < MaxRequests
    /\ p = "p1" \/ pc["p1"] # "idle"

\* the request is over: the handler returned (status "returned") or raised
\* HTTPException 500 (status "raised")
EndRequest(p, endpoint, status, err, served, wrote) ==
    /\ ret' = [NoRet EXCEPT !.kind = "api", !.status = status, !.err = err,
                            !.op_no = ops', !.h_args = <<endpoint>>,
                            !.h_served = served, !.h_wrote_cache = wrote]
    /\ pc' = [pc EXCEPT ![p] = "idle"]
    /\ loc' = [loc EXCEPT ![p] = IdleLoc]
    /\ cur' = NoProc

\* a product handler has its result (from the cache or freshly built): it
\* returns it, to the client or to get_all
HandlerReturns(p, result, served, wrote) ==
    IF ~loc[p].all
    THEN EndRequest(p, loc[p].api, "returned", NoErr, served, wrote)
    ELSE /\ ret' = ret
         /\ cur' = p
         /\ IF loc[p].api = "nike"
            THEN /\ loc' = [loc EXCEPT ![p] =
                              [IdleLoc EXCEPT !.kind = "api", !.all = TRUE,
                                              !.api = "adidas_jersey",
                                              !.nike_data = Some(result),
                                              !.h_served = served,
                                              !.h_wrote_cache = wrote]]
                 /\ pc' = [pc EXCEPT ![p] = "api_call"]
            ELSE /\ loc' = [loc EXCEPT ![p] =
                              [IdleLoc EXCEPT !.kind = "api", !.all = TRUE,
                                              !.api = "all",
                                              !.nike_data = loc[p].nike_data,
                                              !.adidas_data = Some(result),
                                              !.h_served = served,
                                              !.h_wrote_cache = wrote]]
                 /\ pc' = [pc EXCEPT ![p] = "api_all"]

\* a request arrives; GET /all checks its own cache entry first
ApiRequest(p, endpoint) ==
    /\ ApiCanStart(p)
    /\ ops' = ops + 1
    /\ IF endpoint = "all" /\ cache.all # None /\ is_cache_valid(cache, clock)
       THEN EndRequest(p, "all", "returned", NoErr,
                       Some(clock - Val(cache.all).h_computed), FALSE)
       ELSE /\ loc' = [loc EXCEPT ![p] =
                         [IdleLoc EXCEPT !.kind = "api", !.all = (endpoint = "all"),
                                         !.api = IF endpoint = "all" THEN "nike"
                                                 ELSE endpoint]]
            /\ pc' = [pc EXCEPT ![p] = "api_call"]
            /\ cur' = p
            /\ ret' = ret
    /\ UNCHANGED <<backend, db, sess, cache, clock, data_dir, scraped>>

\* get_nike / get_adidas_jersey up to its first suspension: the cache check,
\* and on a miss the start of the run
ApiCall(p) ==
    /\ Running(p, "api_call")
    /\ ops' = ops
    /\ LET key == loc[p].api IN
       IF cache[key] # None /\ is_cache_valid(cache, clock)
       THEN /\ HandlerReturns(p, Val(cache[key]),
                              Older(loc[p].h_served, clock - Val(cache[key]).h_computed),
                              loc[p].h_wrote_cache)
            /\ sess' = sess
       ELSE /\ StartRunBody(p, KeyBrand(key), loc[p])
            /\ ret' = ret
    /\ UNCHANGED <<backend, db, cache, clock, data_dir, scraped>>

\* __exit__ of the run a handler awaits: a raise becomes HTTPException 500,
\* a normal return goes on to the handler's own get_exchange_rate call
ApiExitScope(p) ==
    /\ Running(p, "exit") /\ loc[p].api # "-"
    /\ ops' = ops
    /\ db' = DbExit(sess[p], loc[p].err # NoErr)
    /\ sess' = [sess EXCEPT ![p] = EmptyTables]
    /\ IF loc[p].err # NoErr
       THEN EndRequest(p, IF loc[p].all THEN "all" ELSE loc[p].api,
                       "raised", loc[p].err, loc[p].h_served, loc[p].h_wrote_cache)
       ELSE /\ loc' = [loc EXCEPT ![p] =
                         [IdleLoc EXCEPT !.kind = "api", !.all = loc[p].all,
                                         !.api = loc[p].api,
                                         !.nike_data = loc[p].nike_data,
                                         !.h_served = loc[p].h_served,
                                         !.h_wrote_cache = loc[p].h_wrote_cache,
                                         !.ar_price = loc[p].ar_price,
                                         !.us_price = loc[p].us_price,
                                         !.exchange_rate = loc[p].exchange_rate]]
            /\ pc' = [pc EXCEPT ![p] = "api_rate"]
            /\ ret' = ret
            /\ cur' = p
    /\ UNCHANGED <<backend, cache, clock, data_dir, scraped>>

\* exchange_rate = await service.get_exchange_rate(); the result; the cache update
ApiRate(p) ==
    /\ Running(p, "api_rate")
    /\ ops' = ops
    /\ \E q \in Quotes :
         LET r == get_exchange_rate(q, Procs)
             key == loc[p].api
         IN /\ db' = r.db
            /\ IF r.rate = 0
               THEN /\ EndRequest(p, IF loc[p].all THEN "all" ELSE key,
                                  "raised", "ZeroDivisionError", loc[p].h_served,
                                  loc[p].h_wrote_cache)
                    /\ cache' = cache
               ELSE LET result == ProductResult(key, loc[p].ar_price, loc[p].us_price,
                                                r.rate, clock, loc[p].exchange_rate)
                    IN /\ cache' = [cache EXCEPT ![key] = Some(result),
                                                 !.last_update = Some(clock)]
                       /\ HandlerReturns(p, result, loc[p].h_served, TRUE)
    /\ UNCHANGED <<backend, sess, clock, data_dir, scraped>>

\* get_all after both handlers returned: its get_exchange_rate call and cache update
ApiAllFinish(p) ==
    /\ Running(p, "api_all")
    /\ ops' = ops
    /\ \E q \in Quotes :
         LET r == get_exchange_rate(q, Procs)
             result == [dolar_blue |-> r.rate,
                        productos |-> <<Val(loc[p].nike_data), Val(loc[p].adidas_data)>>,
                        h_computed |-> clock]
         IN /\ db' = r.db
            /\ cache' = [cache EXCEPT !.all = Some(result), !.last_update = Some(clock)]
            /\ EndRequest(p, "all", "returned", NoErr, loc[p].h_served, TRUE)
    /\ UNCHANGED <<backend, sess, clock, data_dir, scraped>>

\* half an hour passes
Tick ==
    /\ cur = NoProc /\ clock < MaxClock
    /\ clock' = clock + 1
    /\ UNCHANGED <<backend, db, sess, pc, loc, ret, cur, ops, cache, data_dir, scraped>>

(***************************************************************************)
(* Specification                                                           *)
(***************************************************************************)
Next ==
    \E p \in Procs :
        \/ SetupDatabase(p)
        \/ RateCall(p)
        \/ \E b \in Brands : StartRun(p, b)
        \/ ScrapeReturn(p)
        \/ RunRate(p)
        \/ AddUS(p)
        \/ AddAR(p)
        \/ FinishRun(p)
        \/ ExceptRun(p)
        \/ ExitScope(p)
        \/ \E i \in ManualProductIds, c \in ManualCountryIds, y \in ManualCurrencies :
              ManualStart(p, i, c, y)
        \/ ManualRate(p)
        \/ ManualAdd(p)
        \/ \E b \in HistoryProducts, c \in HistoryCountries, n \in HistoryLimits :
              HistoryQuery(p, b, c, n)

Spec == Init /\ [][Next]_vars

\* the HTTP API: requests to the cached endpoints, on the default database
InitApi ==
    /\ backend = "sqlite"
    /\ db \in {EmptyTables, SetupTables(EmptyTables)}
    /\ sess = [p \in Procs |-> EmptyTables]
    /\ pc = [p \in Procs |-> "idle"]
    /\ loc = [p \in Procs |-> IdleLoc]
    /\ ret = NoRet
    /\ cur = NoProc
    /\ ops = 0
    /\ cache = EmptyCache
    /\ clock = 0
    /\ data_dir = EmptyDataDir
    /\ scraped = None

NextApi ==
    \/ \E p \in Procs :
          \/ \E e \in Endpoints : ApiRequest(p, e)
          \/ ApiCall(p)
          \/ ScrapeReturn(p)
          \/ RunRate(p)
          \/ AddUS(p)
          \/ AddAR(p)
          \/ FinishRun(p)
          \/ ExceptRun(p)
          \/ ApiExitScope(p)
          \/ ApiRate(p)
          \/ ApiAllFinish(p)
    \/ Tick

SpecApi == InitApi /\ [][NextApi]_vars

\* the snapshot writers, applied to any objects in any order
InitFiles ==
    /\ backend = "sqlite"
    /\ db = EmptyTables
    /\ sess = [p \in Procs |-> EmptyTables]
    /\ pc = [p \in Procs |-> "idle"]
    /\ loc = [p \in Procs |-> IdleLoc]
    /\ ret = NoRet
    /\ cur = NoProc
    /\ ops = 0
    /\ cache = EmptyCache
    /\ clock = 0
    /\ data_dir = EmptyDataDir
    /\ scraped = None

NextFiles ==
    \/ \E e \in SnapshotDirs, d \in JsonObjects : SaveHistoricalData(e, d)
    \/ \E e \in SnapshotDirs, d \in JsonObjects : SaveToJson(e, d)

SpecFiles == InitFiles /\ [][NextFiles]_vars

\* one scrape() call on any behaviour of the two storefronts
ScrapeProduct(b, arPage, usPage) ==
    /\ scraped = None
    /\ scraped' = Some(ScrapeOutcome(b, arPage, usPage))
    /\ UNCHANGED <<backend, db, sess, pc, loc, ret, cur, ops, cache, clock, data_dir>>

InitScrape ==
    /\ backend = "sqlite"
    /\ db = EmptyTables
    /\ sess = [p \in Procs |-> EmptyTables]
    /\ pc = [p \in Procs |-> "idle"]
    /\ loc = [p \in Procs |-> IdleLoc]
    /\ ret = NoRet
    /\ cur = NoProc
    /\ ops = 0
    /\ cache = EmptyCache
    /\ clock = 0
    /\ data_dir = EmptyDataDir
    /\ scraped = None

NextScrape ==
    \E b \in Brands : \E arPage \in ARPages(b), usPage \in USPages(b) :
        ScrapeProduct(b, arPage, usPage)

SpecScrape == InitScrape /\ [][NextScrape]_vars

(***************************************************************************)
(* Vocabulary of the properties                                            *)
(***************************************************************************)
RunPcs == {"scraping", "rate", "add_us", "add_ar", "finish", "except", "exit"}

\* caller p is inside scrape_nike_prices / scrape_adidas_prices
InRun(p) == loc[p].kind = "run" /\ pc[p] \in RunPcs

\* no DatabaseManager scope is open
NoOpenScope == \A p \in Procs : pc[p] = "idle"

\* the step in which caller p leaves the DatabaseManager scope of a run
RunExits(p) == pc[p] = "exit" /\ pc'[p] = "idle" /\ loc[p].kind = "run"

\* ScraperRun rows of p's session for the run p executes
RunRows(p) == {r \in sess[p].scraper_runs : r.id = loc[p].run_id}

\* brand and country code a Price row refers to
RowBrand(r) ==
    IF (CHOOSE x \in db.products : x.id = r.product_id).name = ProductName("nike")
    THEN "nike" ELSE "adidas"
RowCountry(r) == (CHOOSE x \in db.countries : x.id = r.country_id).code

(***************************************************************************)
(* C1: when the scraper or a later step raises inside scrape_nike_prices / *)
(* scrape_adidas_prices, a ScraperRun row of that run with success = false *)
(* and the error message is in the committed table after the scope has     *)
(* exited, and the exception is re-raised to the caller.                   *)
(***************************************************************************)
C1_FailedRunIsCommitted ==
    [][\A p \in Procs :
          (RunExits(p) /\ loc[p].in_try /\ loc[p].err # NoErr) =>
             /\ ret'.status = "raised" /\ ret'.err = loc[p].err
             /\ \E r \in db'.scraper_runs :
                   /\ r.id = loc[p].run_id
                   /\ r.success = Some(FALSE)
                   /\ r.error_message = Some(loc[p].err)]_vars

(***************************************************************************)
(* C2: the ScraperRun row of a run is created with success = None; success *)
(* changes only from None to true or false, in the step that completes the *)
(* pipeline (normally or through the except clause); when the scope is     *)
(* left the row has been finalized; a committed row never changes.         *)
(***************************************************************************)
C2_SuccessSetExactlyOnce ==
    [][/\ \A p \in Procs :
            /\ \A r2 \in sess'[p].scraper_runs :
                  IF \E r \in sess[p].scraper_runs : r.id = r2.id
                  THEN \A r \in sess[p].scraper_runs :
                          r.id = r2.id =>
                             \/ r2.success = r.success
                             \/ /\ r.success = None /\ r2.success # None
                                /\ pc[p] \in {"finish", "except"} /\ pc'[p] = "exit"
                  ELSE r2.success = None
            /\ (pc[p] \in {"finish", "except"} /\ pc'[p] = "exit" /\ loc[p].kind = "run") =>
                  /\ RunRows(p) # {}
                  /\ \A r \in RunRows(p) : r.success = None
                  /\ \A r2 \in sess'[p].scraper_runs :
                        r2.id = loc[p].run_id =>
                           r2.success = Some(pc[p] = "finish")
       /\ db.scraper_runs \subseteq db'.scraper_runs]_vars

\* a run that ended with an exception has its row finalized to false in its session
C2_Witness ==
    \E p \in Procs :
        /\ pc[p] = "exit" /\ loc[p].kind = "run" /\ loc[p].err # NoErr
        /\ \E r \in RunRows(p) : r.success = Some(FALSE)

(***************************************************************************)
(* C3: whenever no reconciliation transaction is open, the committed       *)
(* scraper_runs table holds no row with success = None.                    *)
(***************************************************************************)
C3_NoNullSuccessPersisted ==
    (\A p \in Procs : ~InRun(p)) => \A r \in db.scraper_runs : r.success # None

\* one run has exited by commit and the last one by rollback
C3_Witness ==
    /\ NoOpenScope
    /\ db.scraper_runs # {}
    /\ ret.kind = "run" /\ ret.status = "raised"

(***************************************************************************)
(* C4: within a run the ScraperRun row exists, not yet finalized, whenever *)
(* a Price row of the run is added; it is finalized as successful only     *)
(* after both Price rows were added; nothing is added after it.            *)
(***************************************************************************)
C4_AuditRowBracketsPrices ==
    [][\A p \in Procs :
          /\ (loc[p].kind = "run" /\ sess[p].prices # sess'[p].prices
              /\ sess[p].prices \subseteq sess'[p].prices) =>
                 /\ RunRows(p) # {}
                 /\ \A r \in RunRows(p) : r.success = None
          /\ (loc[p].kind = "run" /\ \E r \in RunRows(p) : r.success # None) =>
                 sess'[p].prices \subseteq sess[p].prices
          /\ (loc[p].kind = "run" /\ \E r \in RunRows(p) : r.success = Some(TRUE)) =>
                 Cardinality(sess[p].prices) = 2]_vars

\* both Price rows are in the session and the run row is finalized as successful
C4_Witness ==
    \E p \in Procs :
        /\ loc[p].kind = "run"
        /\ Cardinality(sess[p].prices) = 2
        /\ \E r \in RunRows(p) : r.success = Some(TRUE)

(***************************************************************************)
(* C5: a run in which no step raises commits exactly two Price rows of its *)
(* product, one for US in USD and one for AR in ARS, and one ScraperRun    *)
(* row with success = true and products_scraped = 1.                       *)
(***************************************************************************)
C5_SuccessfulRunCommits ==
    [][\A p \in Procs :
          (RunExits(p) /\ loc[p].err = NoErr) =>
             LET newPrices == db'.prices \ db.prices
                 newRuns == db'.scraper_runs \ db.scraper_runs
             IN /\ Cardinality(newPrices) = 2
                /\ \E u, a \in newPrices :
                      /\ u.currency = "USD" /\ a.currency = "ARS"
                      /\ \E c \in db'.countries : c.id = u.country_id /\ c.code = "US"
                      /\ \E c \in db'.countries : c.id = a.country_id /\ c.code = "AR"
                      /\ \A x \in {u, a} :
                            \E pr \in db'.products :
                               pr.id = x.product_id /\ pr.name = ProductName(loc[p].brand)
                /\ Cardinality(newRuns) = 1
                /\ \A r \in newRuns :
                      /\ r.id = loc[p].run_id /\ r.scraper_name = ScraperName(loc[p].brand)
                      /\ r.success = Some(TRUE) /\ r.products_scraped = 1]_vars

\* a run has returned normally and its rows are committed
C5_Witness ==
    /\ ret.kind = "run" /\ ret.status = "returned"
    /\ Cardinality(db.prices) >= 2
    /\ \E r \in db.scraper_runs : r.success = Some(TRUE)

(***************************************************************************)
(* C6: when the extraction for a country fails totally, scrape() returns   *)
(* the scraper's fallback constant for that product and country, and the   *)
(* Price row a run persists for it has that value and is_fallback = true.  *)
(***************************************************************************)
C6_TotalFailureGivesFallback ==
    /\ \A p \in Procs :
          (InRun(p) /\ pc[p] \notin {"scraping"}) =>
             /\ loc[p].h_ar_failed => loc[p].ar_price = fallback_prices(loc[p].brand, "AR")
             /\ loc[p].h_us_failed => loc[p].us_price = fallback_prices(loc[p].brand, "US")
    /\ \A r \in db.prices :
          (r.h_origin = "run" /\ r.h_failed) =>
             /\ r.value = fallback_prices(RowBrand(r), RowCountry(r))
             /\ r.is_fallback

\* a committed Price row of a run whose extraction failed totally
C6_Witness ==
    \E r \in db.prices : r.h_origin = "run" /\ r.h_failed /\ RowCountry(r) = "AR"

(***************************************************************************)
(* C7: a persisted Price row with is_fallback = true carries the fallback  *)
(* constant of its product and country; a row written by a run has         *)
(* is_fallback = true exactly when its value equals that constant, also    *)
(* when the value was really extracted; a manual row never has it.         *)
(***************************************************************************)
C7_FallbackFlagIsValueEquality ==
    \A r \in db.prices :
       /\ r.is_fallback => r.value = fallback_prices(RowBrand(r), RowCountry(r))
       /\ r.h_origin = "run" =>
             (r.is_fallback <=> r.value = fallback_prices(RowBrand(r), RowCountry(r)))
       /\ r.h_origin = "manual" => ~r.is_fallback

\* a really extracted AR price equal to the constant is tagged as fallback
C7_Witness ==
    \E r \in db.prices :
       r.h_origin = "run" /\ ~r.h_failed /\ r.is_fallback /\ RowCountry(r) = "AR"

(***************************************************************************)
(* C8: a persisted Price row with a usd_value has usd_value = value /      *)
(* exchange_rate, with the exchange rate obtained for that write; a row in *)
(* USD has exchange_rate = 1.0 and usd_value = value.                      *)
(***************************************************************************)
C8_UsdValueIsValueOverRate ==
    \A r \in db.prices :
       /\ r.usd_value # None =>
             /\ r.exchange_rate = r.h_rate
             /\ r.exchange_rate # 0
             /\ r.usd_value = Div(r.value, r.exchange_rate)
       /\ r.currency = "USD" => (r.exchange_rate = 1 /\ r.usd_value = Rat(r.value))

\* an ARS row written with a rate fetched from the quote endpoint
C8_Witness ==
    \E r \in db.prices :
       r.currency = "ARS" /\ r.exchange_rate # DefaultRate /\ r.usd_value # None

(***************************************************************************)
(* C9: get_exchange_rate / get_exchange_rate_sync do not raise; when the   *)
(* quote request fails they return 1375.0 and no ExchangeRate row (and no  *)
(* other row) is persisted.                                                *)
(***************************************************************************)
\* the step is a get_exchange_rate call made on its own
RateCallStep == ops' = ops + 1 /\ ret'.op_no = ops' /\ ret'.kind = "rate"
\* the step is caller p's get_exchange_rate call inside its run or manual entry
InnerRateStep(p) ==
    \/ pc[p] = "rate" /\ pc'[p] # "rate"
    \/ pc[p] = "m_rate" /\ pc'[p] # "m_rate" /\ loc[p].currency # "USD"

C9_RateFailureGivesDefault ==
    [][/\ RateCallStep =>
            /\ ret'.status = "returned"
            /\ ret'.h_quote = None => (ret'.rate = DefaultRate /\ db' = db)
       /\ \A p \in Procs :
            InnerRateStep(p) =>
               /\ pc'[p] \in {"add_us", "m_add"} /\ loc'[p].err = NoErr
               /\ loc'[p].h_quote = None =>
                     (loc'[p].exchange_rate = DefaultRate /\ db' = db)]_vars

\* a call whose quote request failed has returned the default
C9_Witness ==
    /\ ret.kind = "rate" /\ ret.status = "returned"
    /\ ret.h_quote = None /\ ret.rate = DefaultRate
    /\ db.exchange_rates = {}

(***************************************************************************)
(* C10: whenever the quote request succeeds during the get_exchange_rate   *)
(* call a scraper run makes while its own transaction is open with flushed *)
(* rows, the call commits exactly one new ExchangeRate row (ARS to         *)
(* USD, the fetched rate, source "DolarApi") before it returns, and it     *)
(* returns the fetched rate.                                               *)
(***************************************************************************)
C10_FetchedRateIsCommitted ==
    [][\A p \in Procs :
          (pc[p] = "rate" /\ pc'[p] # "rate" /\ loc'[p].h_quote # None) =>
             /\ loc'[p].exchange_rate = Val(loc'[p].h_quote)
             /\ Cardinality(db'.exchange_rates \ db.exchange_rates) = 1
             /\ \A x \in db'.exchange_rates \ db.exchange_rates :
                   /\ x.from_currency = "ARS" /\ x.to_currency = "USD"
                   /\ x.rate = Val(loc'[p].h_quote) /\ x.source = "DolarApi"]_vars

(***************************************************************************)
(* C11: every persisted Price row refers to a Product, a Country and a     *)
(* Source row that exist in the committed tables, after any sequence of    *)
(* runs and manual entries, successful or failed.                          *)
(***************************************************************************)
C11_NoOrphanPrices ==
    \A r \in db.prices :
       /\ \E x \in db.products : x.id = r.product_id
       /\ \E x \in db.countries : x.id = r.country_id
       /\ \E x \in db.sources : x.id = r.source_id

\* Price rows of a run are committed and a later operation has failed
C11_Witness ==
    /\ \E r \in db.prices :
          \E x \in db.sources : x.id = r.source_id /\ x.name = SourceName("adidas")
    /\ ret.status = "raised" /\ ret.kind \in {"run", "manual"}

(***************************************************************************)
(* C12: Price and ExchangeRate rows are append-only: no step of any        *)
(* operation (run, rate fetch, manual entry, history query, setup) changes *)
(* a field of a committed row or removes it.                               *)
(***************************************************************************)
C12_PricesAndRatesAppendOnly ==
    [][/\ db.prices \subseteq db'.prices
       /\ db.exchange_rates \subseteq db'.exchange_rates]_vars

\* an operation has finished after Price and ExchangeRate rows were committed
C12_Witness ==
    /\ db.prices # {} /\ db.exchange_rates # {}
    /\ ret.op_no = 2 /\ ret.kind \in {"history", "rate", "manual", "run"}
    /\ NoOpenScope

(***************************************************************************)
(* Manual entry: vocabulary                                                *)
(***************************************************************************)
\* the step in which caller p leaves the DatabaseManager scope of a manual entry
ManualExits(p) == pc[p] = "exit" /\ pc'[p] = "idle" /\ loc[p].kind = "manual"

\* the product id and the country id of p's manual entry exist
ManualIdsExist(p) ==
    /\ \E r \in db.products : r.id = loc[p].product
    /\ \E r \in db.countries : r.id = loc[p].country

\* no other caller is inside an operation while p runs
Alone(p) == \A q \in Procs \ {p} : pc[q] = "idle"

\* committed Price rows of tables d for the product, country and currency of
\* p's manual entry
ManualRows(d, p) ==
    {r \in d.prices : /\ r.product_id = loc[p].product
                      /\ r.country_id = loc[p].country
                      /\ r.currency = loc[p].currency
                      /\ r.value = loc[p].price_value}

(***************************************************************************)
(* C13: when add_manual_price is called a second time with the inputs of   *)
(* the call before it, for an existing product and country, two distinct   *)
(* Price rows for those inputs are persisted once the second call is over, *)
(* and the rows that were there before are unchanged.                      *)
(***************************************************************************)
C13_TwoManualCallsTwoRows ==
    [][\A p \in Procs :
          (/\ ManualExits(p) /\ ManualIdsExist(p) /\ Alone(p)
           /\ ret.kind = "manual"
           /\ ret.h_args = <<loc[p].product, loc[p].country, loc[p].currency>>) =>
             /\ Cardinality(ManualRows(db', p)) >= 2
             /\ db.prices \subseteq db'.prices]_vars

(***************************************************************************)
(* C14: one add_manual_price call for an existing product id and country   *)
(* id, made while no other operation is in progress, returns a result and  *)
(* leaves exactly one more persisted Price row for that product and        *)
(* country than before; the row has is_fallback = false.                   *)
(***************************************************************************)
C14_ManualCallAddsOneRow ==
    [][\A p \in Procs :
          (ManualExits(p) /\ ManualIdsExist(p) /\ Alone(p)) =>
             /\ ret'.status = "returned"
             /\ db.prices \subseteq db'.prices
             /\ Cardinality(ManualRows(db', p) \ db.prices) = 1
             /\ \A r \in ManualRows(db', p) \ db.prices : ~r.is_fallback]_vars

(***************************************************************************)
(* C15: add_manual_price called with a product id or a country id that     *)
(* does not exist raises ValueError before anything is written, and the    *)
(* call persists nothing: the committed tables are the same after it.      *)
(***************************************************************************)
C15_UnknownIdIsValueError ==
    [][\A p \in Procs :
          /\ (pc[p] = "idle" /\ loc'[p].kind = "manual"
              /\ ~(/\ \E r \in db.products : r.id = loc'[p].product
                   /\ \E r \in db.countries : r.id = loc'[p].country)) =>
                 /\ pc'[p] = "exit" /\ loc'[p].err = "ValueError"
                 /\ sess' = sess /\ db' = db
          /\ (ManualExits(p) /\ ~ManualIdsExist(p)) =>
                 /\ ret'.status = "raised" /\ ret'.err = "ValueError"
                 /\ db' = db]_vars

\* a manual entry for an unknown product id has failed on a database that has products
C15_Witness ==
    /\ ret.kind = "manual" /\ ret.status = "raised" /\ ret.err = "ValueError"
    /\ db.products # {}
    /\ \A r \in db.products : r.id # ret.h_args[1]

(***************************************************************************)
(* C18: a history query for a recognized product, country AR and limit n,  *)
(* on a database that has the product and the country, succeeds and        *)
(* returns at most n Price rows of that product and country, newest first, *)
(* each in ARS, whatever Price rows the database holds.                    *)
(***************************************************************************)
\* the step is a history query
HistoryStep == ops' = ops + 1 /\ ret'.op_no = ops' /\ ret'.kind = "history"

C18_HistoryQuerySucceeds ==
    [][(/\ HistoryStep /\ ret'.h_args[2] = "AR"
        /\ ProductId(EmptyTables, ProductName(ret'.h_args[1])) # 0
        /\ CountryId(EmptyTables, "AR") # 0) =>
           LET out == ret'.prices IN
           /\ ret'.status = "returned"
           /\ Len(out) <= ret'.h_args[3]
           /\ \A i \in 1..Len(out) :
                 /\ out[i] \in db.prices
                 /\ out[i].product_id = ProductId(EmptyTables, ProductName(ret'.h_args[1]))
                 /\ out[i].country_id = CountryId(EmptyTables, "AR")
                 /\ out[i].currency = "ARS"
           /\ \A i, j \in 1..Len(out) : i < j => out[i].id > out[j].id]_vars

(***************************************************************************)
(* C16: a response answered from the cache for a key was computed for that *)
(* key less than one hour before the request, for any sequence of /nike,   *)
(* /adidas-jersey and /all requests: an entry that is one hour old or      *)
(* older is never returned, whatever happened to the other keys.           *)
(***************************************************************************)
C16_CachedResponseIsFresh ==
    /\ (ret.kind = "api" /\ ret.h_served # None) => Val(ret.h_served) < CacheWindow
    /\ \A p \in Procs :
          loc[p].h_served # None => Val(loc[p].h_served) < CacheWindow

(***************************************************************************)
(* C17: when a request for a product observes an empty or stale cache      *)
(* while another request for the same product, which observed the same, is *)
(* inside its pipeline, the second request runs the pipeline too: it       *)
(* starts its own ScraperRun row, so that the one miss window leaves two   *)
(* ScraperRun rows for the product.                                        *)
(***************************************************************************)
C17_ConcurrentMissesBothRun ==
    [][\A p \in Procs :
          (/\ pc[p] = "api_call" /\ pc'[p] # "api_call"
           /\ ~(cache[loc[p].api] # None /\ is_cache_valid(cache, clock))
           /\ \E q \in Procs \ {p} :
                 pc[q] = "scraping" /\ loc[q].api = loc[p].api) =>
             /\ pc'[p] = "scraping"
             /\ \E r \in sess'[p].scraper_runs :
                   r.scraper_name = ScraperName(KeyBrand(loc[p].api))]_vars

(***************************************************************************)
(* C19: after any write of a snapshot, by save_historical_data or by       *)
(* save_to_json and for any directory, latest.json is the merge of the     *)
(* written object over the previous latest.json: a field that is present   *)
(* and not null in the written object has the written value, and a field   *)
(* that is missing or null in it keeps the value of the previous file.     *)
(***************************************************************************)
C19_LatestIsMerged ==
    data_dir.h_write # None =>
       LET w == Val(data_dir.h_write)
           new == Val(data_dir.latest[w.endpoint])
       IN \A f \in PriceFields :
             IF f \in DOMAIN w.data /\ w.data[f] # None
             THEN f \in DOMAIN new /\ new[f] = w.data[f]
             ELSE (w.previous # None /\ f \in DOMAIN Val(w.previous)) =>
                     (f \in DOMAIN new /\ new[f] = Val(w.previous)[f])

(***************************************************************************)
(* C20: a navigation timeout, absent selectors, unparseable selector text  *)
(* or a raising content / script stage, in either country and in any       *)
(* combination, never leaves scrape() as an exception: the call returns a  *)
(* result whose AR and US prices are both present and non-zero.            *)
(***************************************************************************)
C20_ScrapeAlwaysReturnsPrices ==
    scraped # None =>
        LET s == Val(scraped) IN
        /\ s.raised = None
        /\ s.result # None
        /\ Val(s.result).ar_price > 0
        /\ Val(s.result).us_price > 0

\* AR navigation timed out; in the US every selector was absent and the script
\* probe raised: scrape() returned both fallback constants
C20_Witness ==
    /\ scraped # None
    /\ ~Val(scraped).ar_page.nav
    /\ Val(scraped).us_page.nav
    /\ Val(scraped).us_page.sel = <<None, None>>
    /\ Val(scraped).us_page.js.raises
    /\ Val(scraped).result # None
    /\ Val(Val(scraped).result).ar_price = fallback_prices(Val(scraped).brand, "AR")
    /\ Val(Val(scraped).result).us_price = fallback_prices(Val(scraped).brand, "US")

(***************************************************************************)
(* C21: the two country extractions of one scrape() are independent.       *)
(* Whatever the AR storefront does (navigation failure, no selector, a     *)
(* raising stage), a price the US storefront yields is the US price of the *)
(* result, and whatever the US storefront does, a price the AR storefront  *)
(* yields is the AR price of the result.                                   *)
(***************************************************************************)
C21_CountryExtractionsIndependent ==
    scraped # None =>
        LET s == Val(scraped) IN
        /\ s.result # None
        /\ Truthy(ExtractUS(s.us_page)) =>
              Val(s.result).us_price = Val(ExtractUS(s.us_page))
        /\ Truthy(ExtractAR(s.ar_page)) =>
              Val(s.result).ar_price = Val(ExtractAR(s.ar_page))

\* the AR navigation failed and the US selector showed a price: the result has
\* the AR fallback and the US price that was extracted
C21_Witness ==
    /\ scraped # None
    /\ ~Val(scraped).ar_page.nav
    /\ Val(scraped).us_page.nav
    /\ Val(scraped).us_page.sel = <<Some(OtherPrice(Val(scraped).brand, "US"))>>
    /\ Val(scraped).result # None
    /\ Val(Val(scraped).result).us_price = OtherPrice(Val(scraped).brand, "US")
    /\ Val(Val(scraped).result).ar_price = fallback_prices(Val(scraped).brand, "AR")

(***************************************************************************)
(* C22: when a selector of the list yields text that parses to a number,   *)
(* the extraction returns that number and executes neither the content     *)
(* regex nor the script probe, for every number the text can parse to.     *)
(***************************************************************************)
C22_SelectorPriceSkipsLaterStages ==
    scraped # None =>
        LET s == Val(scraped)
            arSel == extract_price_with_selectors(s.ar_page.sel)
            usSel == extract_price_with_selectors(s.us_page.sel)
        IN /\ (s.ar_page.nav /\ arSel # None) =>
                 /\ s.h_ar_stages = <<"selectors">>
                 /\ ExtractAR(s.ar_page) = arSel
           /\ (s.us_page.nav /\ usSel # None) =>
                 /\ s.h_us_stages = <<"selectors">>
                 /\ ExtractUS(s.us_page) = usSel

(***************************************************************************)
(* C23: each country path runs the three stages selectors, content regex,  *)
(* script evaluation in this order, a stage only when the earlier ones     *)
(* found no price, and substitutes the fallback only after all three were  *)
(* attempted and failed.                                                   *)
(***************************************************************************)
ThreeStages == <<"selectors", "content_regex", "script">>
IsPrefix(s, t) == Len(s) <= Len(t) /\ \A i \in 1..Len(s) : s[i] = t[i]

C24_MissingReferenceRowsNeverFailRun ==
    \A p \in Procs :
        (loc[p].kind = "run" /\ loc[p].in_try
           /\ (loc[p].product = 0 \/ loc[p].us = 0 \/ loc[p].ar = 0 \/ loc[p].source = 0))
        => loc[p].err # "AttributeError"

(***************************************************************************)
(* DatabaseManager.get_or_create_* called from sessions that may overlap   *)
(***************************************************************************)
RefTables == {"countries", "categories", "products", "sources"}

\* the reference rows asked for, one identity key per table
RefRows ==
    [countries |-> [id |-> 0, code |-> "US", currency |-> "USD"],
     categories |-> [id |-> 0, name |-> "Footwear"],
     products |-> [id |-> 0, name |-> ProductName("nike"), category_id |-> 0],
     sources |-> [id |-> 0, name |-> "Nike Website", type |-> "scraping"]]

\* filter_by(...) of the get_or_create_* query of table t
SameKey(t, r1, r2) ==
    IF t = "countries" THEN r1.code = r2.code
    ELSE IF t = "sources" THEN r1.name = r2.name /\ r1.type = r2.type
    ELSE r1.name = r2.name

\* the one declared uniqueness: Country.code (unique=True); an INSERT of a code
\* that another open transaction has inserted cannot complete
UniqueConflict(p, t, row) ==
    /\ t = "countries"
    /\ \E q \in Procs \ {p} : \E r \in sess[q][t] : SameKey(t, r, row)

\* query(...).filter_by(...).first() in session rows s
FindRef(s, t, row) == First({r \in View(s, t) : SameKey(t, r, row)})

\* session.add(row); session.flush(): <<s', id>>
InsertRef(s, t, row) ==
    LET id == NewId(t) IN <<[s EXCEPT ![t] = @ \cup {[row EXCEPT !.id = id]}], id>>

\* get_or_create_country / category / source on session rows s: <<s', id, created>>
get_or_create(s, t, row) ==
    LET found == FindRef(s, t, row) IN
    IF found # None THEN <<s, Val(found).id, FALSE>>
    ELSE LET ins == InsertRef(s, t, row) IN <<ins[1], ins[2], TRUE>>

\* get_or_create_product: the category is looked up or created only for a new product
get_or_create_product(s, row) ==
    LET found == FindRef(s, "products", row) IN
    IF found # None THEN <<s, Val(found).id, FALSE>>
    ELSE LET cat == get_or_create(s, "categories", RefRows.categories)
             ins == InsertRef(cat[1], "products", [row EXCEPT !.category_id = cat[2]])
         IN <<ins[1], ins[2], TRUE>>

\* with DatabaseManager(db_url) as db:
RefOpen(p) ==
    /\ pc[p] = "idle"
    /\ pc' = [pc EXCEPT ![p] = "refs"]
    /\ loc' = [loc EXCEPT ![p] = [IdleLoc EXCEPT !.kind = "refs"]]
    /\ UNCHANGED <<backend, db, sess, ret, cur, ops, cache, clock, data_dir, scraped>>

\* one get_or_create_* call inside the scope; a flush that cannot get the write
\* lock, or that meets the unique index, raises and leaves the scope
RefCall(p, t) ==
    /\ pc[p] = "refs" /\ loc[p].err = NoErr
    /\ LET r == IF t = "products" THEN get_or_create_product(sess[p], RefRows[t])
                ELSE get_or_create(sess[p], t, RefRows[t])
           err == IF ~r[3] THEN NoErr
                  ELSE IF ~CanWrite(Procs \ {p}) THEN "OperationalError"
                  ELSE IF UniqueConflict(p, t, RefRows[t]) THEN "IntegrityError"
                  ELSE NoErr
       IN /\ sess' = [sess EXCEPT ![p] = IF err = NoErr THEN r[1] ELSE @]
          /\ loc' = [loc EXCEPT ![p].err = err]
          /\ ret' = [NoRet EXCEPT !.kind = "ref",
                                  !.status = IF err = NoErr THEN "returned" ELSE "raised",
                                  !.err = err,
                                  !.h_args = IF err = NoErr THEN <<t, r[2], r[3]>> ELSE <<t>>]
    /\ UNCHANGED <<backend, db, pc, cur, ops, cache, clock, data_dir, scraped>>

\* DatabaseManager.__exit__ of the scope.  session.commit() / session.rollback()
\* can raise (connection lost, I/O error): `fails` is that input.  The two
\* statements after the if/else, session.close() and self.session = None, are
\* not in a finally block, so they are reached only when nothing raised; a
\* session left open keeps its transaction, and the caller ends in "leaked".
RefExit(p, fails) ==
    /\ pc[p] = "refs"
    /\ IF fails
       THEN /\ db' = db
            /\ sess' = sess
            /\ pc' = [pc EXCEPT ![p] = "leaked"]
            /\ loc' = [loc EXCEPT ![p].err = "OperationalError"]
       ELSE /\ db' = DbExit(sess[p], loc[p].err # NoErr)
            /\ sess' = [sess EXCEPT ![p] = EmptyTables]
            /\ pc' = [pc EXCEPT ![p] = "idle"]
            /\ loc' = [loc EXCEPT ![p] = IdleLoc]
    /\ ret' = [NoRet EXCEPT !.kind = "scope",
                            !.status = IF fails \/ loc[p].err # NoErr THEN "raised"
                                       ELSE "returned",
                            !.err = IF fails THEN "OperationalError" ELSE loc[p].err]
    /\ UNCHANGED <<backend, cur, ops, cache, clock, data_dir, scraped>>

InitRefs ==
    /\ backend \in {"sqlite", "server"}
    /\ db = EmptyTables
    /\ sess = [p \in Procs |-> EmptyTables]
    /\ pc = [p \in Procs |-> "idle"]
    /\ loc = [p \in Procs |-> IdleLoc]
    /\ ret = NoRet
    /\ cur = NoProc
    /\ ops = 0
    /\ cache = EmptyCache
    /\ clock = 0
    /\ data_dir = EmptyDataDir
    /\ scraped = None

NextRefs ==
    \E p \in Procs :
        \/ RefOpen(p)
        \/ \E t \in RefTables : RefCall(p, t)
        \/ \E fails \in BOOLEAN : RefExit(p, fails)

SpecRefs == InitRefs /\ [][NextRefs]_vars

(***************************************************************************)
(* C25: reference rows are created once and reused: whatever sequence of   *)
(* get_or_create_* calls one or several sessions issue, with overlapping   *)
(* transactions or not, the database holds at most one row per identity    *)
(* key, and a call that follows a creation returns the existing row.       *)
(***************************************************************************)
C25_OneRowPerIdentityKey ==
    /\ \A t \in RefTables : \A r1, r2 \in db[t] : SameKey(t, r1, r2) => r1.id = r2.id
    /\ (ret.kind = "ref" /\ ret.status = "returned" /\ ret.h_args[3]) =>
          \A r \in AllRows(ret.h_args[1]) :
              SameKey(ret.h_args[1], r, RefRows[ret.h_args[1]]) => r.id = ret.h_args[2]

(***************************************************************************)
(* C26: every DatabaseManager scope releases its session on every exit     *)
(* path: commit on normal exit, rollback on exit by exception, and in both *)
(* cases, also when commit or rollback itself raises, the session is       *)
(* closed: no session is open once its scope has been left.                *)
(***************************************************************************)
SessionOpen(p) == pc[p] \in {"refs", "leaked"}
InScope(p) == pc[p] = "refs"

C26_SessionClosedOnEveryExit ==
    \A p \in Procs :
        /\ SessionOpen(p) => InScope(p)
        /\ ~SessionOpen(p) => sess[p] = EmptyTables

(***************************************************************************)
(* C27: the steps of a scraper run happen in the order started, scraping,  *)
(* rate lookup, persisting, finished.  The exchange rate provider is       *)
(* called only after the scraper has returned its result and before any    *)
(* Price row of the run is written, exactly once; the run row is finalized *)
(* last; when the scraper raises, the run is marked failed without a rate  *)
(* lookup and without a Price row.                                         *)
(***************************************************************************)
C27_RunStepsInOrder ==
    \A p \in Procs : loc[p].kind = "run" =>
        /\ RunRows(p) = {} => (loc[p].h_rate_calls = 0 /\ sess[p].prices = {})
        /\ pc[p] \in {"scraping", "rate"} => (loc[p].h_rate_calls = 0 /\ sess[p].prices = {})
        /\ loc[p].h_rate_calls > 0 => (loc[p].ar_price > 0 /\ loc[p].us_price > 0)
        /\ sess[p].prices # {} => loc[p].h_rate_calls = 1
        /\ (\E r \in RunRows(p) : r.success # None) => pc[p] = "exit"
        /\ loc[p].err = "PlaywrightError" =>
              /\ loc[p].h_rate_calls = 0
              /\ sess[p].prices = {}
              /\ pc[p] = "exit" => \A r \in RunRows(p) : r.success = Some(FALSE)

\* a run that went through every step: one rate lookup, both Price rows, the
\* run row marked successful, about to leave the scope
C27_Witness ==
    \E p \in Procs :
        /\ loc[p].kind = "run" /\ pc[p] = "exit" /\ loc[p].err = NoErr
        /\ loc[p].h_rate_calls = 1
        /\ Cardinality(sess[p].prices) = 2
        /\ \E r \in RunRows(p) : r.success = Some(TRUE)

\* the scraper raised: the run row is marked failed, no rate lookup, no Price row
C27_WitnessScraperRaised ==
    \E p \in Procs :
        /\ loc[p].kind = "run" /\ pc[p] = "exit" /\ loc[p].err = "PlaywrightError"
        /\ \E r \in RunRows(p) : r.success = Some(FALSE)

(***************************************************************************)
(* C28: a scraper run is all-or-nothing for its Price rows.  A run that    *)
(* raises after its US row was added leaves no Price row once its          *)
(* transaction has ended: the committed table always holds, for every      *)
(* product, as many AR rows written by runs as US rows written by runs,    *)
(* and a run that leaves its scope by an exception adds no Price row.      *)
(***************************************************************************)
RunPrices(d, product_id, currency) ==
    {r \in d.prices : r.h_origin = "run" /\ r.product_id = product_id /\ r.currency = currency}

C28_RunPricesAllOrNothing ==
    /\ \A r \in db.prices : r.h_origin = "run" =>
          Cardinality(RunPrices(db, r.product_id, "USD"))
              = Cardinality(RunPrices(db, r.product_id, "ARS"))
    /\ \A p \in Procs :
          (loc[p].kind = "run" /\ loc[p].err # NoErr) => sess[p].prices \cap db.prices = {}

\* the rate was 0: the US row was added, the AR row raised ZeroDivisionError,
\* and after the scope exit the table holds no Price row
C28_Witness ==
    /\ ret.kind = "run" /\ ret.status = "raised" /\ ret.err = "ZeroDivisionError"
    /\ db.prices = {}
    /\ \A p \in Procs : pc[p] = "idle"

(***************************************************************************)
(* C29: for a /nike or /adidas-jersey request that misses the cache and    *)
(* succeeds, the rate in the response (dolar_blue, and the rate behind     *)
(* precio_ars_usd) is the rate the run stored in exchange_rate and         *)
(* usd_value of the AR Price row it persisted, also when the quote         *)
(* endpoint's answer changes or fails during the request.                  *)
(***************************************************************************)
C29_ReportedRateIsStoredRate ==
    \A key \in ProductKeys :
        (/\ ret.kind = "api" /\ ret.status = "returned"
         /\ ret.h_args = <<key>> /\ ret.h_served = None
         /\ cache[key] # None) =>
            LET result == Val(cache[key]) IN
            /\ result.dolar_blue = result.h_run_rate
            /\ result.precio_ars_usd = Round2(result.precio_ars, result.h_run_rate)
            /\ \E r \in db.prices :
                  /\ r.h_origin = "run" /\ r.currency = "ARS"
                  /\ r.value = result.precio_ars
                  /\ r.exchange_rate = result.dolar_blue

(***************************************************************************)
(* C30: the cache is modified only by a successful pipeline run.  A /nike, *)
(* /adidas-jersey or /all request that ends with an error has assigned to  *)
(* no cache entry and not to last_update, and a request answered from the  *)
(* cache has not assigned to the cache either.                             *)
(***************************************************************************)
C30_CacheChangedOnlyBySuccess ==
    ret.kind = "api" =>
        /\ ret.status = "raised" => ~ret.h_wrote_cache
        /\ (ret.status = "returned" /\ ret.h_served # None /\ ret.h_args[1] \in ProductKeys)
              => ~ret.h_wrote_cache

=============================================================================
